---- MODULE Spec2Model ----
(***************************************************************************)
(* Process supervision core of terraform-rs: Process::spawn,               *)
(* ProcessContext::wait with its two StreamProcessor threads, and the      *)
(* per-line callbacks of Terraform::run_init / run_plan / run_apply /      *)
(* run_destroy that feed the event sink.                                   *)
(*                                                                         *)
(* Environment assumptions: the write ends of the two pipes are held by    *)
(* the child alone, so a pipe reaches end-of-file exactly when the child   *)
(* is dead; time is measured in units of 1/UnitsPerSec second.             *)
(***************************************************************************)
EXTENDS Integers, Sequences, FiniteSets, TLC

\* ---------------------------------------------------------------- bounds
\* Most lines the child writes, both streams together.
MaxLines == 3
\* Lines an OS pipe holds before the child's write blocks.
PipeCap == 1
\* Largest configured timeout, in time units.
MaxTimeout == 2
\* Time units per second: the sub-second resolution of Duration.
UnitsPerSec == 2

\* ------------------------------------------------------------ vocabulary
Streams == {"stdout", "stderr"}
Commands == {"init", "plan", "apply", "destroy"}
\* The readable text of the k-th line of a stream: the child numbers its lines.
LineText(k) == "line " \o ToString(k)
\* A line whose bytes are not valid UTF-8: BufRead::lines yields Err for it.
Unreadable == "<invalid utf-8>"
\* Exit statuses of a child that ends on its own.
ExitStatuses == {[kind |-> "exited", val |-> 0], [kind |-> "signaled", val |-> 15]}
\* Status of a child ended by Child::kill (SIGKILL).
KilledStatus == [kind |-> "signaled", val |-> 9]
NoStatus == [kind |-> "none", val |-> 0]

\* Option<T>
None == <<>>
Some(x) == <<x>>

VARIABLES
    command,      \* the facade operation: "init" | "plan" | "apply" | "destroy"
    timeout,      \* Process.timeout, in time units
    now,          \* start.elapsed(), in time units
    child,        \* "none" | "running" | "zombie" (dead, not reaped) | "reaped"
    status,       \* the dead child's ExitStatus
    written,      \* per stream: every raw line the child has written
    pipe,         \* per stream: raw lines in the OS pipe
    queue,        \* per stream: Result<String, Error> values in the mpsc channel
    cb,           \* per stream: the arguments of the callback's invocations
    calls,        \* every callback invocation, in order: [stream, arg]
    buf,          \* self.stdout / self.stderr
    events,       \* what the event sink (Terraform.sender) has received
    pc,           \* position of the thread running wait
    spc,          \* per stream: "idle" | "running" | "done" (streamer thread)
    outcome,      \* what was returned: "none" | "ok" | "timeout" | "io_error"
                  \* | "path_error"
    arm,          \* the arm of `match self.child.try_wait()` taken last:
                  \* "none" | "err" | "exited" | "running" | "deadline"
    exit_code,    \* self.exit_code
    signal_code   \* self.signal_code

vars == <<command, timeout, now, child, status, written, pipe, queue,
          cb, calls, buf, events, pc, spc, outcome, arm, exit_code, signal_code>>

\* ------------------------------------------------------- pure functions
\* Duration::as_secs: whole seconds, the fractional part dropped.
as_secs(d) == d \div UnitsPerSec

\* The deadline test of the Ok(None) arm of wait's loop.
WithinTimeout(elapsed, limit) == as_secs(elapsed) < as_secs(limit)

\* A status code read without looking at how the child ended.
StatusCode_any(st) == Some(st.val)

\* ExitStatus::code: Some only for a normal exit.
StatusCode(st) == IF st.kind = "exited" THEN Some(st.val) ELSE None

\* ExitStatusExt::signal: Some only for a child ended by a signal.
StatusSignal(st) == IF st.kind = "signaled" THEN Some(st.val) ELSE None

\* A lossy reader: every line is forwarded as Ok, its bytes as they are.
ReadLine_lossy(raw) == [ok |-> TRUE, val |-> raw]

\* One item of BufReader::lines(), with map_err: Ok(text) or Err(IOError).
ReadLine(raw) ==
    IF raw = Unreadable THEN [ok |-> FALSE, val |-> "IOError"]
    ELSE [ok |-> TRUE, val |-> raw]

\* The sentinel pushed for a line that carries a read error.
Sentinel == "<error retrieving stream content>"

\* What the drain loop passes to the callback for one received item.
CallbackArg(res) == IF res.ok THEN Some(res.val) ELSE None

\* An entry that keeps the text of the read error instead of the sentinel.
BufferEntry_error_text(res) == res.val

\* What the drain loop accumulates for one received item.
BufferEntry(res) == IF res.ok THEN res.val ELSE Sentinel

\* An insertion at the front of the vector.
Push_front(v, x) == <<x>> \o v

\* Vec::push
Push(v, x) == Append(v, x)

\* ------------------------------------------------------ regex (regex crate)
\* A pattern is a tree; the constructors follow the syntax of the crate.
Lit(str) == [t |-> "lit", s |-> str]
AnyChar == [t |-> "any"]
Digit == [t |-> "digit"]
WordChar == [t |-> "word"]
Bol == [t |-> "bol"]
Eol == [t |-> "eol"]
Cat(rs) == [t |-> "seq", rs |-> rs]
Alt(rs) == [t |-> "alt", rs |-> rs]
Plus(r) == [t |-> "plus", r |-> r]
Star(r) == [t |-> "star", r |-> r]
Opt(r) == [t |-> "opt", r |-> r]
Cap(name, r) == [t |-> "cap", name |-> name, r |-> r]

CapNames ==
    {"address", "generation", "action", "id_key", "id_value", "elapsed",
     "action_create", "action_read", "action_update", "action_destroy",
     "action_replace", "add_count", "change_count", "destroy_count"}

\* Captures of a match: every named group, None while it took no part.
NoCaptures == [n \in CapNames |-> None]

DigitChars == {"0", "1", "2", "3", "4", "5", "6", "7", "8", "9"}

WordChars ==
    DigitChars \cup
    {"a", "b", "c", "d", "e", "f", "g", "h", "i", "j", "k", "l", "m", "n",
     "o", "p", "q", "r", "s", "t", "u", "v", "w", "x", "y", "z", "_",
     "A", "B", "C", "D", "E", "F", "G", "H", "I", "J", "K", "L", "M", "N",
     "O", "P", "Q", "R", "S", "T", "U", "V", "W", "X", "Y", "Z"}

\* The i-th character of str, as a string of length one.
CharAt(str, i) == SubSeq(str, i, i)

\* A way of matching is the position reached (characters consumed so far)
\* and the captures set on the way there.
Way(p, c) == [p |-> p, c |-> c]

RECURSIVE Flatten(_, _, _)
\* The concatenation of lists[lo..hi].
Flatten(lists, lo, hi) ==
    IF lo > hi THEN <<>>
    ELSE IF lo = hi THEN lists[lo]
    ELSE LET mid == (lo + hi) \div 2 IN
         Flatten(lists, lo, mid) \o Flatten(lists, mid + 1, hi)

\* Does the one-character pattern r (a class, or a group around one) accept ch?
Accepts(r, ch) ==
    LET a == IF r.t = "cap" THEN r.r ELSE r IN
    CASE a.t = "any" -> ch # "\n"
      [] a.t = "digit" -> ch \in DigitChars
      [] a.t = "word" -> ch \in WordChars

\* How many characters after position i the one-character pattern r accepts
\* in a row.
Run(r, str, i) ==
    LET rejected == {j \in 1..(Len(str) - i) : ~Accepts(r, CharAt(str, i + j))} IN
    IF rejected = {} THEN Len(str) - i
    ELSE (CHOOSE j \in rejected : \A k \in rejected : j <= k) - 1

\* The ways a repetition of the one-character pattern r matches from position
\* i, the longest first (the repetition is greedy). A group inside the
\* repetition is set again by every iteration, so it keeps the last character.
Repeated(r, str, i, c) ==
    LET n == Run(r, str, i) IN
    [k \in 1..n |->
        LET p == i + n + 1 - k IN
        Way(p, IF r.t = "cap" THEN [c EXCEPT ![r.name] = Some(CharAt(str, p))]
               ELSE c)]

RECURSIVE Ways(_, _, _, _)
RECURSIVE WaysCat(_, _, _, _)

\* All the ways r matches str from position i with captures c so far, in the
\* order a backtracking matcher tries them: the head is the match the crate
\* reports (leftmost-first alternation, greedy repetition). Every repetition
\* in the patterns of this program is over one character.
Ways(r, str, i, c) ==
    CASE r.t = "lit" ->
           IF i + Len(r.s) <= Len(str) /\ SubSeq(str, i + 1, i + Len(r.s)) = r.s
           THEN <<Way(i + Len(r.s), c)>> ELSE <<>>
      [] r.t \in {"any", "digit", "word"} ->
           IF i < Len(str) /\ Accepts(r, CharAt(str, i + 1))
           THEN <<Way(i + 1, c)>> ELSE <<>>
      [] r.t = "bol" -> IF i = 0 THEN <<Way(i, c)>> ELSE <<>>
      [] r.t = "eol" -> IF i = Len(str) THEN <<Way(i, c)>> ELSE <<>>
      [] r.t = "seq" -> WaysCat(r.rs, str, i, c)
      [] r.t = "alt" ->
           Flatten([k \in 1..Len(r.rs) |-> Ways(r.rs[k], str, i, c)], 1, Len(r.rs))
      [] r.t = "opt" -> Ways(r.r, str, i, c) \o <<Way(i, c)>>
      [] r.t = "plus" -> Repeated(r.r, str, i, c)
      [] r.t = "star" -> Repeated(r.r, str, i, c) \o <<Way(i, c)>>
      [] r.t = "cap" ->
           LET ws == Ways(r.r, str, i, c) IN
           [k \in 1..Len(ws) |->
               Way(ws[k].p, [ws[k].c EXCEPT ![r.name] = Some(SubSeq(str, i + 1, ws[k].p))])]

WaysCat(rs, str, i, c) ==
    IF rs = <<>> THEN <<Way(i, c)>>
    ELSE LET ws == Ways(Head(rs), str, i, c) IN
         Flatten([k \in 1..Len(ws) |-> WaysCat(Tail(rs), str, ws[k].p, ws[k].c)],
                 1, Len(ws))

\* Regex::captures: the match at the leftmost position where there is one.
captures(r, str) ==
    LET starts == {i \in 0..Len(str) : Ways(r, str, i, NoCaptures) # <<>>} IN
    IF starts = {} THEN None
    ELSE LET i == CHOOSE j \in starts : \A k \in starts : j <= k IN
         Some(Ways(r, str, i, NoCaptures)[1].c)

\* --------------------------------------------- the patterns (Terraform::new)
\* "  # (?P<address>.+) ((will be ((?P<action_create>created)
\* |((?P<action_read>read) during apply)|((?P<action_update>updated) in-place)
\* |(?P<action_destroy>destroyed)))
\* |((is tainted, so )?must be (?P<action_replace>replaced)))"
plan_change_regex ==
    Cat(<<Lit("  # "), Cap("address", Plus(AnyChar)), Lit(" "),
          Alt(<<Cat(<<Lit("will be "),
                      Alt(<<Cap("action_create", Lit("created")),
                            Cat(<<Cap("action_read", Lit("read")), Lit(" during apply")>>),
                            Cat(<<Cap("action_update", Lit("updated")), Lit(" in-place")>>),
                            Cap("action_destroy", Lit("destroyed"))>>)>>),
                Cat(<<Opt(Lit("is tainted, so ")), Lit("must be "),
                      Cap("action_replace", Lit("replaced"))>>)>>)>>)

\* (?: \[(?P<id_key>.+)=(?P<id_value>.+)\])
IdSuffix ==
    Cat(<<Lit(" ["), Cap("id_key", Plus(AnyChar)), Lit("="),
          Cap("id_value", Plus(AnyChar)), Lit("]")>>)

\* (?P<elapsed>\d+\w+)
Elapsed == Cap("elapsed", Cat(<<Plus(Digit), Plus(WordChar)>>))

\* ^(?P<address>.+)( \((?P<generation>.*)\))?: (?P<action>(Destroying|Creating|
\* Modifying|Reading))\.\.\.(?: \[(?P<id_key>.+)=(?P<id_value>.+)\])?$
pre_apply_regex ==
    Cat(<<Bol, Cap("address", Plus(AnyChar)),
          Opt(Cat(<<Lit(" ("), Cap("generation", Star(AnyChar)), Lit(")")>>)),
          Lit(": "),
          Cap("action", Alt(<<Lit("Destroying"), Lit("Creating"),
                              Lit("Modifying"), Lit("Reading")>>)),
          Lit("..."), Opt(IdSuffix), Eol>>)

\* ^(?P<address>.+): Still (?P<action>(modifying|destroying|creating|reading))
\* \.\.\. \[(?:(?P<id_key>.+)=(?P<id_value>.+), )?(?P<elapsed>\d+\w+) elapsed\]
still_applying_regex ==
    Cat(<<Bol, Cap("address", Plus(AnyChar)), Lit(": Still "),
          Cap("action", Alt(<<Lit("modifying"), Lit("destroying"),
                              Lit("creating"), Lit("reading")>>)),
          Lit("... ["),
          Opt(Cat(<<Cap("id_key", Plus(AnyChar)), Lit("="),
                    Cap("id_value", Plus(AnyChar)), Lit(", ")>>)),
          Elapsed, Lit(" elapsed]")>>)

\* ^(?P<address>.+): (?P<action>(Modifications|Destruction|Creation|Read))
\* complete after (?P<elapsed>\d+\w+)(?: \[(?P<id_key>.+)=(?P<id_value>.+)\])?$
post_apply_regex ==
    Cat(<<Bol, Cap("address", Plus(AnyChar)), Lit(": "),
          Cap("action", Alt(<<Lit("Modifications"), Lit("Destruction"),
                              Lit("Creation"), Lit("Read")>>)),
          Lit(" complete after "), Elapsed, Opt(IdSuffix), Eol>>)

\* Plan: (?P<add_count>\d)+ to add, (?P<change_count>\d)+ to change,
\* (?P<destroy_count>\d)+ to destroy.     (the last . is any character)
plan_completed_regex ==
    Cat(<<Lit("Plan: "), Plus(Cap("add_count", Digit)), Lit(" to add, "),
          Plus(Cap("change_count", Digit)), Lit(" to change, "),
          Plus(Cap("destroy_count", Digit)), Lit(" to destroy"), AnyChar>>)

\* Apply complete! Resources: (?P<add_count>\d)+ added, (?P<change_count>\d)+
\* changed, (?P<destroy_count>\d)+ destroyed.
apply_completed_regex ==
    Cat(<<Lit("Apply complete! Resources: "), Plus(Cap("add_count", Digit)),
          Lit(" added, "), Plus(Cap("change_count", Digit)), Lit(" changed, "),
          Plus(Cap("destroy_count", Digit)), Lit(" destroyed"), AnyChar>>)

\* Destroy complete! Resources: (?P<destroy_count>\d)+ destroyed.
destroy_completed_regex ==
    Cat(<<Lit("Destroy complete! Resources: "),
          Plus(Cap("destroy_count", Digit)), Lit(" destroyed"), AnyChar>>)

\* ------------------------------------------------- the classifier (lib.rs)
\* char::is_whitespace, for the characters a line can hold.
Whitespace == {" ", "\t", "\r", "\n"}

RECURSIVE TrimStart(_)
TrimStart(str) ==
    IF Len(str) > 0 /\ CharAt(str, 1) \in Whitespace
    THEN TrimStart(SubSeq(str, 2, Len(str))) ELSE str

RECURSIVE TrimEnd(_)
TrimEnd(str) ==
    IF Len(str) > 0 /\ CharAt(str, Len(str)) \in Whitespace
    THEN TrimEnd(SubSeq(str, 1, Len(str) - 1)) ELSE str

\* str::trim
trim(str) == TrimEnd(TrimStart(str))

DigitValue(ch) ==
    CASE ch = "0" -> 0 [] ch = "1" -> 1 [] ch = "2" -> 2 [] ch = "3" -> 3
      [] ch = "4" -> 4 [] ch = "5" -> 5 [] ch = "6" -> 6 [] ch = "7" -> 7
      [] ch = "8" -> 8 [] ch = "9" -> 9

\* u32::MAX, as text: the largest count the event can carry.
U32MaxText == "4294967295"

RECURSIVE StripZeros(_)
StripZeros(str) ==
    IF Len(str) > 1 /\ CharAt(str, 1) = "0"
    THEN StripZeros(SubSeq(str, 2, Len(str))) ELSE str

RECURSIVE DigitsLeq(_, _, _)
\* a <= b for digit strings of one length, compared from position k.
DigitsLeq(a, b, k) ==
    IF k > Len(a) THEN TRUE
    ELSE IF CharAt(a, k) = CharAt(b, k) THEN DigitsLeq(a, b, k + 1)
    ELSE DigitValue(CharAt(a, k)) < DigitValue(CharAt(b, k))

InU32(digits) ==
    LET d == StripZeros(digits) IN
    \/ Len(d) < Len(U32MaxText)
    \/ Len(d) = Len(U32MaxText) /\ DigitsLeq(d, U32MaxText, 1)

RECURSIVE DigitsValue(_, _, _)
\* The digits str[k..] read onto acc.
DigitsValue(str, k, acc) ==
    IF k > Len(str) THEN acc
    ELSE DigitsValue(str, k + 1, acc * 10 + DigitValue(CharAt(str, k)))

\* str::parse::<u32>().ok(): digits only (one leading + allowed), in range.
parse_u32(str) ==
    LET body == IF Len(str) > 0 /\ CharAt(str, 1) = "+"
                THEN SubSeq(str, 2, Len(str)) ELSE str IN
    IF Len(body) = 0 \/ (\E k \in 1..Len(body) : CharAt(body, k) \notin DigitChars)
       \/ ~InU32(body)
    THEN None ELSE Some(DigitsValue(body, 1, 0))

\* Option::map(f).flatten() for f = trim then parse.
CountOf(cap) == IF cap = None THEN None ELSE parse_u32(trim(cap[1]))

\* Option::map(trim)
TrimmedOf(cap) == IF cap = None THEN None ELSE Some(trim(cap[1]))

\* Terraform::parse_stats_captures
parse_stats_captures(caps) ==
    <<CountOf(caps["add_count"]), CountOf(caps["change_count"]),
      CountOf(caps["destroy_count"])>>

\* Terraform::parse_context_captures
parse_context_captures(caps) ==
    <<TrimmedOf(caps["address"]), TrimmedOf(caps["id_key"]),
      TrimmedOf(caps["id_value"])>>

\* Terraform::action_to_change
action_to_change(action) ==
    LET a == trim(action) IN
    CASE a \in {"Creating", "creating", "Creation"} -> <<"Create">>
      [] a \in {"Reading", "reading", "Read"} -> <<"Read">>
      [] a \in {"Modifying", "modifying", "Modifications"} -> <<"Update">>
      [] a \in {"Destroying", "destroying", "Destruction"} -> <<"Destroy">>
      [] OTHER -> <<>>

\* A change list in which a replacement reads create, then destroy.
captures_to_change_create_first(caps) ==
    IF caps["action"] # None THEN action_to_change(caps["action"][1])
    ELSE IF caps["action_create"] # None THEN <<"Create">>
    ELSE IF caps["action_read"] # None THEN <<"Read">>
    ELSE IF caps["action_update"] # None THEN <<"Update">>
    ELSE IF caps["action_destroy"] # None THEN <<"Destroy">>
    ELSE IF caps["action_replace"] # None THEN <<"Create", "Destroy">>
    ELSE <<>>

\* Terraform::captures_to_change
captures_to_change(caps) ==
    IF caps["action"] # None THEN action_to_change(caps["action"][1])
    ELSE IF caps["action_create"] # None THEN <<"Create">>
    ELSE IF caps["action_read"] # None THEN <<"Read">>
    ELSE IF caps["action_update"] # None THEN <<"Update">>
    ELSE IF caps["action_destroy"] # None THEN <<"Destroy">>
    ELSE IF caps["action_replace"] # None THEN <<"Destroy", "Create">>
    ELSE <<>>

\* TerraformEvent::default
DefaultEvent ==
    [change |-> <<>>, status |-> None, resource_path |-> None,
     id_key |-> None, id_value |-> None, create_count |-> None,
     update_count |-> None, delete_count |-> None, command |-> "",
     source |-> "", source_stream |-> "stdout"]

\* The TerraformEvent literal of the branches that matched a resource
\* pattern; the plan branch leaves the id fields at their default.
ResourceEvent(caps, st, stdout, with_id) ==
    LET ctx == parse_context_captures(caps) IN
    [DefaultEvent EXCEPT !.change = captures_to_change(caps),
                         !.status = Some(st),
                         !.resource_path = ctx[1],
                         !.id_key = IF with_id THEN ctx[2] ELSE None,
                         !.id_value = IF with_id THEN ctx[3] ELSE None,
                         !.source = stdout]

\* A summary event that keeps the line as its resource_path as well.
SummaryEvent_with_path(caps, stdout) ==
    LET n == parse_stats_captures(caps) IN
    [DefaultEvent EXCEPT !.status = Some("Completed"),
                         !.resource_path = Some(trim(stdout)),
                         !.source = stdout,
                         !.create_count = n[1],
                         !.update_count = n[2],
                         !.delete_count = n[3]]

\* The TerraformEvent literal of the branches that matched a summary.
SummaryEvent(caps, stdout) ==
    LET n == parse_stats_captures(caps) IN
    [DefaultEvent EXCEPT !.status = Some("Completed"),
                         !.source = stdout,
                         !.create_count = n[1],
                         !.update_count = n[2],
                         !.delete_count = n[3]]

\* A plan classifier with the fallback of the apply classifier, which sets
\* no status.
parse_plan_stdout_raw_fallback(stdout) ==
    LET change == captures(plan_change_regex, stdout) IN
    IF change # None THEN ResourceEvent(change[1], "Planned", stdout, FALSE)
    ELSE LET done == captures(plan_completed_regex, stdout) IN
    IF done # None THEN SummaryEvent(done[1], stdout)
    ELSE [DefaultEvent EXCEPT !.source = stdout]

\* Terraform::parse_plan_stdout
parse_plan_stdout(stdout) ==
    LET change == captures(plan_change_regex, stdout) IN
    IF change # None THEN ResourceEvent(change[1], "Planned", stdout, FALSE)
    ELSE LET done == captures(plan_completed_regex, stdout) IN
    IF done # None THEN SummaryEvent(done[1], stdout)
    ELSE [DefaultEvent EXCEPT !.status = Some("Planned"), !.source = stdout]

\* An apply classifier that tries the progress pattern before the started
\* pattern.
parse_apply_stdout_progress_first(stdout) ==
    LET still == captures(still_applying_regex, stdout) IN
    IF still # None THEN ResourceEvent(still[1], "InProgress", stdout, TRUE)
    ELSE LET pre == captures(pre_apply_regex, stdout) IN
    IF pre # None THEN ResourceEvent(pre[1], "Started", stdout, TRUE)
    ELSE LET post == captures(post_apply_regex, stdout) IN
    IF post # None THEN ResourceEvent(post[1], "Done", stdout, TRUE)
    ELSE LET applied == captures(apply_completed_regex, stdout) IN
    IF applied # None THEN SummaryEvent(applied[1], stdout)
    ELSE LET destroyed == captures(destroy_completed_regex, stdout) IN
    IF destroyed # None THEN SummaryEvent(destroyed[1], stdout)
    ELSE [DefaultEvent EXCEPT !.source = stdout]

\* Terraform::parse_apply_stdout
parse_apply_stdout(stdout) ==
    LET pre == captures(pre_apply_regex, stdout) IN
    IF pre # None THEN ResourceEvent(pre[1], "Started", stdout, TRUE)
    ELSE LET still == captures(still_applying_regex, stdout) IN
    IF still # None THEN ResourceEvent(still[1], "InProgress", stdout, TRUE)
    ELSE LET post == captures(post_apply_regex, stdout) IN
    IF post # None THEN ResourceEvent(post[1], "Done", stdout, TRUE)
    ELSE LET applied == captures(apply_completed_regex, stdout) IN
    IF applied # None THEN SummaryEvent(applied[1], stdout)
    ELSE LET destroyed == captures(destroy_completed_regex, stdout) IN
    IF destroyed # None THEN SummaryEvent(destroyed[1], stdout)
    ELSE [DefaultEvent EXCEPT !.source = stdout]

\* ------------------------------------------------- lines to be classified
\* The lines terraform prints, built from their parts, so that what a line
\* says (its address, its change, its id, its counts) is known apart from
\* the text out of which the classifier has to recover it.
Addresses == {"aws_instance.web", "x"}

\* "  # <address> <phrase>" is how terraform prints a planned change; the
\* line without the indentation is the same words as quoted in prose.
Indents == {"  ", ""}

PlanPhrases ==
    {[words |-> "will be created", change |-> <<"Create">>],
     [words |-> "will be read during apply", change |-> <<"Read">>],
     [words |-> "will be updated in-place", change |-> <<"Update">>],
     [words |-> "will be destroyed", change |-> <<"Destroy">>],
     [words |-> "must be replaced", change |-> <<"Destroy", "Create">>],
     [words |-> "is tainted, so must be replaced",
      change |-> <<"Destroy", "Create">>]}

StartVerbs ==
    {[word |-> "Creating", change |-> <<"Create">>],
     [word |-> "Reading", change |-> <<"Read">>],
     [word |-> "Modifying", change |-> <<"Update">>],
     [word |-> "Destroying", change |-> <<"Destroy">>]}

ProgressVerbs ==
    {[word |-> "creating", change |-> <<"Create">>],
     [word |-> "reading", change |-> <<"Read">>],
     [word |-> "modifying", change |-> <<"Update">>],
     [word |-> "destroying", change |-> <<"Destroy">>]}

DoneNouns ==
    {[word |-> "Creation", change |-> <<"Create">>],
     [word |-> "Read", change |-> <<"Read">>],
     [word |-> "Modifications", change |-> <<"Update">>],
     [word |-> "Destruction", change |-> <<"Destroy">>]}

Generations == {None, Some("deposed object 1")}
Ids == {None, Some([key |-> "id", value |-> "i-0123"])}
Elapsed10s == "10s"

\* The counts of a summary: one digit each, and more than one digit.
CountTriples == {<<2, 1, 0>>, <<12, 0, 105>>}

NoCounts == <<None, None, None>>

\* A line and what it says.
Line(kind, text, address, change, id, counts) ==
    [kind |-> kind, text |-> text, address |-> address, change |-> change,
     id |-> id, counts |-> counts]

IdSuffixText(id) ==
    IF id = None THEN "" ELSE " [" \o id[1].key \o "=" \o id[1].value \o "]"

PlanChangeLine(indent, a, ph) ==
    Line("plan_change", indent \o "# " \o a \o " " \o ph.words,
         Some(a), ph.change, None, NoCounts)

PlanSummaryLine(n) ==
    Line("plan_summary",
         "Plan: " \o ToString(n[1]) \o " to add, " \o ToString(n[2])
             \o " to change, " \o ToString(n[3]) \o " to destroy.",
         None, <<>>, None, <<Some(n[1]), Some(n[2]), Some(n[3])>>)

StartedLine(a, gen, verb, id) ==
    Line("started",
         a \o (IF gen = None THEN "" ELSE " (" \o gen[1] \o ")") \o ": "
           \o verb.word \o "..." \o IdSuffixText(id),
         Some(a), verb.change, id, NoCounts)

ProgressLine(a, verb, id) ==
    Line("progress",
         a \o ": Still " \o verb.word \o "... ["
           \o (IF id = None THEN ""
               ELSE id[1].key \o "=" \o id[1].value \o ", ")
           \o Elapsed10s \o " elapsed]",
         Some(a), verb.change, id, NoCounts)

DoneLine(a, noun, id) ==
    Line("done",
         a \o ": " \o noun.word \o " complete after " \o Elapsed10s
           \o IdSuffixText(id),
         Some(a), noun.change, id, NoCounts)

ApplySummaryLine(n) ==
    Line("apply_summary",
         "Apply complete! Resources: " \o ToString(n[1]) \o " added, "
             \o ToString(n[2]) \o " changed, " \o ToString(n[3])
             \o " destroyed.",
         None, <<>>, None, <<Some(n[1]), Some(n[2]), Some(n[3])>>)

DestroySummaryLine(n) ==
    Line("destroy_summary",
         "Destroy complete! Resources: " \o ToString(n[3]) \o " destroyed.",
         None, <<>>, None, <<None, None, Some(n[3])>>)

OtherLine(text) == Line("other", text, None, <<>>, None, NoCounts)

PlanChangeLines ==
    {PlanChangeLine(ind, a, ph) :
        ind \in Indents, a \in Addresses, ph \in PlanPhrases}
PlanSummaryLines == {PlanSummaryLine(n) : n \in CountTriples}
StartedLines ==
    {StartedLine("aws_instance.web", gen, verb, id) :
        gen \in Generations, verb \in StartVerbs, id \in Ids}
ProgressLines ==
    {ProgressLine("aws_instance.web", verb, id) :
        verb \in ProgressVerbs, id \in Ids}
DoneLines ==
    {DoneLine("aws_instance.web", noun, id) : noun \in DoneNouns, id \in Ids}
ApplySummaryLines == {ApplySummaryLine(n) : n \in CountTriples}
DestroySummaryLines == {DestroySummaryLine(n) : n \in CountTriples}

\* Lines of no grammar, and lines in which more than one pattern is found.
OtherLines ==
    {OtherLine(""),
     OtherLine("Warning: Deprecated attribute"),
     OtherLine(LineText(1)),
     OtherLine("x: Still creating... [10s elapsed]: Creating..."),
     OtherLine("x: Creation complete after 10s: Still creating... [10s elapsed]"),
     OtherLine("Apply complete! Resources: 1 added, 0 changed, 0 destroyed. Destroy complete! Resources: 1 destroyed."),
     OtherLine("  # x will be created Plan: 1 to add, 0 to change, 0 to destroy.")}

ClassifyLines ==
    PlanChangeLines \cup PlanSummaryLines \cup StartedLines
        \cup ProgressLines \cup DoneLines \cup ApplySummaryLines
        \cup DestroySummaryLines \cup OtherLines

ClassifyTexts == {l.text : l \in ClassifyLines}

\* Every line that occurs: the child's numbered lines and the lines above.
OccurringTexts == ClassifyTexts \cup {LineText(k) : k \in 1..MaxLines}

\* The two classifiers, tabulated over the lines that occur.
ClassifiedPlan == [line \in OccurringTexts |-> parse_plan_stdout(line)]
ClassifiedApply == [line \in OccurringTexts |-> parse_apply_stdout(line)]

\* An unclassified event whose source_stream is left at its default.
RawEvent_default_stream(cmd, s, line) ==
    [DefaultEvent EXCEPT !.command = cmd, !.source = line]

\* The event a callback builds without classifying: the init callbacks, and
\* the stderr callback of every operation.
RawEvent(cmd, s, line) ==
    [DefaultEvent EXCEPT !.command = cmd, !.source = line, !.source_stream = s]

\* Callbacks of which the stderr one classifies its line too.
LineEvent_any_stream(cmd, s, line) ==
    IF cmd = "plan"
    THEN [ClassifiedPlan[line] EXCEPT !.command = cmd, !.source_stream = s]
    ELSE IF cmd \in {"apply", "destroy"}
    THEN [ClassifiedApply[line] EXCEPT !.command = cmd, !.source_stream = s]
    ELSE [DefaultEvent EXCEPT !.command = cmd, !.source = line,
                              !.source_stream = s]

\* The event a facade callback builds for a readable line: the stdout
\* callbacks of run_plan, run_apply and run_destroy classify the line and
\* put the command on the result.
LineEvent(cmd, s, line) ==
    IF s = "stdout" /\ cmd = "plan"
    THEN [ClassifiedPlan[line] EXCEPT !.command = cmd]
    ELSE IF s = "stdout" /\ cmd \in {"apply", "destroy"}
    THEN [ClassifiedApply[line] EXCEPT !.command = cmd]
    ELSE RawEvent(cmd, s, line)

\* A facade callback: `if let Some(line) = arg { sender.send(event) }`.
Callback(cmd, s, arg, sink) ==
    IF arg = None THEN sink
    ELSE Append(sink, LineEvent(cmd, s, arg[1]))

\* ----------------------------------------------------------------- Init
Init ==
    /\ command \in Commands
    /\ timeout \in 0..MaxTimeout
    /\ now = 0
    /\ child = "none"
    /\ status = NoStatus
    /\ written = [s \in Streams |-> <<>>]
    /\ pipe = [s \in Streams |-> <<>>]
    /\ queue = [s \in Streams |-> <<>>]
    /\ cb = [s \in Streams |-> <<>>]
    /\ calls = <<>>
    /\ buf = [s \in Streams |-> <<>>]
    /\ events = <<>>
    /\ pc = "spawn"
    /\ spc = [s \in Streams |-> "idle"]
    /\ outcome = "none"
    /\ arm = "none"
    /\ exit_code = None
    /\ signal_code = None

\* ------------------------------------------------------------ the child
\* The child writes its next line, readable or not, to a pipe that has room.
ChildWrite(s) ==
    /\ child = "running"
    /\ Len(written["stdout"]) + Len(written["stderr"]) < MaxLines
    /\ Len(pipe[s]) < PipeCap
    /\ \E raw \in {LineText(Len(written[s]) + 1), Unreadable} :
         /\ written' = [written EXCEPT ![s] = Append(@, raw)]
         /\ pipe' = [pipe EXCEPT ![s] = Append(@, raw)]
    /\ UNCHANGED <<calls, command, timeout, now, child, status, queue, cb, buf,
                   events, pc, spc, outcome, arm, exit_code, signal_code>>

\* The child ends on its own (it need not ever); its ends of the pipes close.
ChildExit ==
    /\ child = "running"
    /\ child' = "zombie"
    /\ status' \in ExitStatuses
    /\ UNCHANGED <<calls, command, timeout, now, written, pipe, queue, cb, buf,
                   events, pc, spc, outcome, arm, exit_code, signal_code>>

\* Time passes. start.elapsed() is read by the deadline test alone, once per
\* iteration of the polling loop, so the clock is advanced during the sleep;
\* the test is monotone in the elapsed time, so the clock is followed until
\* the test first fails.
Tick ==
    /\ pc = "sleep"
    /\ WithinTimeout(now, timeout)
    /\ now' = now + 1
    /\ UNCHANGED <<calls, command, timeout, child, status, written, pipe, queue,
                   cb, buf, events, pc, spc, outcome, arm, exit_code, signal_code>>

\* -------------------------------------------------------- the streamers
\* StreamProcessor::stream, one iteration: read a line, send it.
StreamLine(s) ==
    /\ spc[s] = "running"
    /\ pipe[s] # <<>>
    /\ queue' = [queue EXCEPT ![s] = Append(@, ReadLine(Head(pipe[s])))]
    /\ pipe' = [pipe EXCEPT ![s] = Tail(@)]
    /\ UNCHANGED <<calls, command, timeout, now, child, status, written, cb, buf,
                   events, pc, spc, outcome, arm, exit_code, signal_code>>

\* StreamProcessor::stream: lines() ends at end-of-file and the thread ends.
StreamEof(s) ==
    /\ spc[s] = "running"
    /\ pipe[s] = <<>>
    /\ child \in {"zombie", "reaped"}
    /\ spc' = [spc EXCEPT ![s] = "done"]
    /\ UNCHANGED <<calls, command, timeout, now, child, status, written, pipe,
                   queue, cb, buf, events, pc, outcome, arm, exit_code, signal_code>>

Streamer(s) == StreamLine(s) \/ StreamEof(s)

\* ------------------------------------------------ spawn and wait (main)
\* Process::spawn / ProcessContext::new: Command::spawn succeeds or fails.
SpawnOk ==
    /\ pc = "spawn"
    /\ child' = "running"
    /\ pc' = "start_streamers"
    /\ UNCHANGED <<calls, command, timeout, now, status, written, pipe, queue,
                   cb, buf, events, spc, outcome, arm, exit_code, signal_code>>

\* A failed spawn found out only after the reader threads were started.
SpawnErr_streamers_started ==
    /\ pc = "spawn"
    /\ pc' = "returned"
    /\ outcome' = "io_error"
    /\ spc' = [s \in Streams |-> "running"]
    /\ UNCHANGED <<calls, command, timeout, now, child, status, written, pipe,
                   queue, cb, buf, events, arm, exit_code, signal_code>>

\* Command::spawn fails: `?` returns the io::Error, nothing was started.
SpawnErr ==
    /\ pc = "spawn"
    /\ pc' = "returned"
    /\ outcome' = "io_error"
    /\ UNCHANGED <<calls, command, timeout, now, child, status, written, pipe,
                   queue, cb, buf, events, spc, arm, exit_code, signal_code>>

\* run_plan / run_apply: the plan path is not valid unicode, so
\* `to_str().ok_or(Error::PathError)?` returns before anything is spawned.
PathErr ==
    /\ pc = "spawn"
    /\ command \in {"plan", "apply"}
    /\ pc' = "returned"
    /\ outcome' = "path_error"
    /\ UNCHANGED <<calls, command, timeout, now, child, status, written, pipe,
                   queue, cb, buf, events, spc, arm, exit_code, signal_code>>

\* wait: the two channels are made and the two reader threads spawned.
StartStreamers ==
    /\ pc = "start_streamers"
    /\ spc' = [s \in Streams |-> "running"]
    /\ pc' = "try_wait"
    /\ UNCHANGED <<calls, command, timeout, now, child, status, written, pipe,
                   queue, cb, buf, events, outcome, arm, exit_code, signal_code>>

\* try_wait() = Err(_): the status cannot be observed.
TryWaitErr ==
    /\ pc = "try_wait"
    /\ arm' = "err"
    /\ pc' = "kill"
    /\ UNCHANGED <<calls, command, timeout, now, child, status, written, pipe,
                   queue, cb, buf, events, spc, outcome, exit_code, signal_code>>

\* A poll that looks at the deadline before it looks at the status.
TryWaitExited_after_deadline ==
    /\ pc = "try_wait"
    /\ child = "zombie"
    /\ IF WithinTimeout(now, timeout)
       THEN /\ child' = "reaped"
            /\ exit_code' = StatusCode(status)
            /\ signal_code' = StatusSignal(status)
            /\ outcome' = "ok"
            /\ arm' = "exited"
            /\ pc' = "join_stdout"
       ELSE /\ arm' = "deadline"
            /\ pc' = "kill"
            /\ UNCHANGED <<child, exit_code, signal_code, outcome>>
    /\ UNCHANGED <<calls, command, timeout, now, status, written, pipe, queue,
                   cb, buf, events, spc>>

\* try_wait() = Ok(Some(status)): the child is reaped, its status recorded.
TryWaitExited ==
    /\ pc = "try_wait"
    /\ child = "zombie"
    /\ child' = "reaped"
    /\ exit_code' = StatusCode(status)
    /\ signal_code' = StatusSignal(status)
    /\ outcome' = "ok"
    /\ arm' = "exited"
    /\ pc' = "join_stdout"
    /\ UNCHANGED <<calls, command, timeout, now, status, written, pipe, queue,
                   cb, buf, events, spc>>

\* try_wait() = Ok(None): the child still runs.
TryWaitRunning ==
    /\ pc = "try_wait"
    /\ child = "running"
    /\ arm' = IF WithinTimeout(now, timeout) THEN "running" ELSE "deadline"
    /\ pc' = IF WithinTimeout(now, timeout) THEN "sleep" ELSE "kill"
    /\ UNCHANGED <<calls, command, timeout, now, child, status, written, pipe,
                   queue, cb, buf, events, spc, outcome, exit_code, signal_code>>

\* thread::sleep(20 ms)
Sleep ==
    /\ pc = "sleep"
    /\ pc' = "drain_stdout"
    /\ UNCHANGED <<calls, command, timeout, now, child, status, written, pipe,
                   queue, cb, buf, events, spc, outcome, arm, exit_code, signal_code>>

NextDrain(s) == IF s = "stdout" THEN "drain_stderr" ELSE "try_wait"

\* One iteration of `while let Ok(line) = rx.try_recv()`: callback, then push.
DrainLine(s) ==
    /\ pc = "drain_" \o s
    /\ queue[s] # <<>>
    /\ LET res == Head(queue[s]) IN
         /\ cb' = [cb EXCEPT ![s] = Append(@, CallbackArg(res))]
         /\ calls' = Append(calls, [stream |-> s, arg |-> CallbackArg(res)])
         /\ events' = Callback(command, s, CallbackArg(res), events)
         /\ buf' = [buf EXCEPT ![s] = Push(@, BufferEntry(res))]
    /\ queue' = [queue EXCEPT ![s] = Tail(@)]
    /\ UNCHANGED <<command, timeout, now, child, status, written, pipe,
                   pc, spc, outcome, arm, exit_code, signal_code>>

\* try_recv() = Err (empty or disconnected): the loop ends.
DrainEnd(s) ==
    /\ pc = "drain_" \o s
    /\ queue[s] = <<>>
    /\ pc' = NextDrain(s)
    /\ UNCHANGED <<calls, command, timeout, now, child, status, written, pipe,
                   queue, cb, buf, events, spc, outcome, arm, exit_code, signal_code>>

\* child.kill() = Ok, then child.wait(): the child is dead and reaped.
KillOk ==
    /\ pc = "kill"
    /\ child' = "reaped"
    /\ status' = IF child = "running" THEN KilledStatus ELSE status
    /\ outcome' = "timeout"
    /\ pc' = "join_stdout"
    /\ UNCHANGED <<calls, command, timeout, now, written, pipe, queue, cb, buf,
                   events, spc, arm, exit_code, signal_code>>

\* child.kill() = Err: map() skips child.wait(); the result is dropped.
KillErr ==
    /\ pc = "kill"
    /\ outcome' = "timeout"
    /\ pc' = "join_stdout"
    /\ UNCHANGED <<calls, command, timeout, now, child, status, written, pipe,
                   queue, cb, buf, events, spc, arm, exit_code, signal_code>>

NextJoin(s) == IF s = "stdout" THEN "join_stderr" ELSE "returned"

\* A reader thread that is let go instead of joined.
Join_detached(s) ==
    /\ pc = "join_" \o s
    /\ pc' = NextJoin(s)
    /\ UNCHANGED <<calls, command, timeout, now, child, status, written, pipe,
                   queue, cb, buf, events, spc, outcome, arm, exit_code, signal_code>>

\* reader.join(): blocks until the streamer thread has ended.
Join(s) ==
    /\ pc = "join_" \o s
    /\ spc[s] = "done"
    /\ pc' = NextJoin(s)
    /\ UNCHANGED <<calls, command, timeout, now, child, status, written, pipe,
                   queue, cb, buf, events, spc, outcome, arm, exit_code, signal_code>>

Main ==
    \/ SpawnOk
    \/ SpawnErr
    \/ PathErr
    \/ StartStreamers
    \/ TryWaitErr
    \/ TryWaitExited
    \/ TryWaitRunning
    \/ Sleep
    \/ \E s \in Streams : DrainLine(s) \/ DrainEnd(s) \/ Join(s)
    \/ KillOk
    \/ KillErr

Next ==
    \/ Main
    \/ \E s \in Streams : ChildWrite(s)
    \/ ChildExit
    \/ Tick
    \/ \E s \in Streams : Streamer(s)

Spec == Init /\ [][Next]_vars

\* The OS schedules every thread, and time passes.
FairSpec ==
    /\ Spec
    /\ WF_vars(Main)
    /\ \A s \in Streams : WF_vars(Streamer(s))
    /\ SF_vars(Tick)

\* The most lines waiting in a queue when the drain begins.
MaxQueued == 1

QueuedTexts == UNION {[1..n -> ClassifyTexts] : n \in 1..MaxQueued}

\* wait is about to drain the queue of stream s, into which the streamer has
\* put lines the child wrote; nothing has been delivered yet.
ClassifyInit ==
    \E s \in Streams, lines \in QueuedTexts :
        /\ command \in Commands
        /\ timeout = UnitsPerSec
        /\ now = 0
        /\ child = "running"
        /\ status = NoStatus
        /\ written = [t \in Streams |-> IF t = s THEN lines ELSE <<>>]
        /\ pipe = [t \in Streams |-> <<>>]
        /\ queue = [t \in Streams |->
                      IF t = s THEN [k \in 1..Len(lines) |-> ReadLine(lines[k])]
                      ELSE <<>>]
        /\ cb = [t \in Streams |-> <<>>]
        /\ calls = <<>>
        /\ buf = [t \in Streams |-> <<>>]
        /\ events = <<>>
        /\ pc = "drain_" \o s
        /\ spc = [t \in Streams |-> "running"]
        /\ outcome = "none"
        /\ arm = "running"
        /\ exit_code = None
        /\ signal_code = None

ClassifyNext == \E s \in Streams : DrainLine(s)

\* The drain of a queue that holds lines of terraform's grammars.
ClassifySpec == ClassifyInit /\ [][ClassifyNext]_vars

\* ================================================================ claims
\* What the callback must be given, and the buffer must hold, for one line
\* the child wrote; stated on the raw line, apart from the code's operators.
ExpectedArg(raw) == IF raw = Unreadable THEN <<>> ELSE <<raw>>
ExpectedEntry(raw) ==
    IF raw = Unreadable THEN "<error retrieving stream content>" ELSE raw
ExpectedArgs(raws) == [i \in 1..Len(raws) |-> ExpectedArg(raws[i])]
ExpectedEntries(raws) == [i \in 1..Len(raws) |-> ExpectedEntry(raws[i])]
IsPrefix(p, q) == Len(p) <= Len(q) /\ \A i \in 1..Len(p) : p[i] = q[i]

\* Every line the child wrote to stream s was given to s's callback and is
\* in s's buffer, and nothing is left on s's queue.
AllDelivered(s) ==
    /\ cb[s] = ExpectedArgs(written[s])
    /\ buf[s] = ExpectedEntries(written[s])
    /\ queue[s] = <<>>

\* The child ended on its own (not by Child::kill).
OwnExit == status \in ExitStatuses

Returned(o) == pc = "returned" /\ outcome = o

\* The outcomes of an operation that returned before wait was entered.
LaunchErrors == {"io_error", "path_error"}
NotLaunched == pc = "returned" /\ outcome \in LaunchErrors

\* Child::kill failed: wait is at its joins and the child still runs.
KillFailed == pc \in {"join_stdout", "join_stderr"} /\ child = "running"

\* C1: when wait returns Ok, every line the child wrote to stdout and to
\* stderr has been given to the callback and is in the returned buffer, and
\* no queued line is left undelivered.
C1_ExitDeliversAllLines ==
    Returned("ok") => \A s \in Streams : AllDelivered(s)

\* C2: for a child that does not exit before the deadline, when wait fails
\* with Timeout every line the child wrote before the kill is in the
\* accumulated output, in order, and was given to the callbacks.
C2_TimeoutDeliversAllLines ==
    (Returned("timeout") /\ arm = "deadline" /\ ~OwnExit)
        => \A s \in Streams : AllDelivered(s)

\* C3: for a child that never exits on its own (one that was spawned and
\* does not end by itself) and whose status can be observed, wait eventually
\* returns Timeout, and the child is then killed and reaped.
C3_TimeoutKillsChild ==
    <>(\/ NotLaunched
       \/ OwnExit
       \/ arm = "err"
       \/ Returned("timeout") /\ child = "reaped" /\ status = KilledStatus)

\* C4: under fair scheduling wait eventually returns, whatever the child
\* does, with Ok or Timeout (a failed launch returns before wait).
C4_WaitReturns ==
    <>(pc = "returned" /\ outcome \in {"ok", "timeout"} \cup LaunchErrors)

\* C5: in every state, for each stream, the callback's arguments and the
\* buffer are a prefix of what the child wrote to that stream, in order.
C5_PerStreamOrder ==
    \A s \in Streams :
        /\ IsPrefix(cb[s], ExpectedArgs(written[s]))
        /\ IsPrefix(buf[s], ExpectedEntries(written[s]))

\* C5 witness: two lines of one stream have been delivered.
C5_TwoLinesDelivered ==
    \E s \in Streams : Len(cb[s]) >= 2 /\ Len(buf[s]) >= 2

\* C6: a line written to one stream is eventually given to that stream's
\* callback, whatever the other stream carries, for a child that does not
\* exit, whose status can be observed and that can be killed.
C6_StarvedStreamDelivered ==
    \A s \in Streams :
        [](written[s] # <<>> =>
             <>(cb[s] # <<>> \/ OwnExit \/ arm = "err" \/ KillFailed))

\* C7: a completed run of wait ends in exactly one way: Ok with an exit code
\* and no signal, Ok with a signal and no exit code, or Timeout.
C7_OneOutcome ==
    (pc = "returned" /\ outcome \notin LaunchErrors) =>
        \/ outcome = "ok" /\ exit_code # None /\ signal_code = None
        \/ outcome = "ok" /\ exit_code = None /\ signal_code # None
        \/ outcome = "timeout" /\ exit_code = None /\ signal_code = None

\* C7 witness: wait returned Ok for a child ended by a signal.
C7_ReturnedWithSignal ==
    Returned("ok") /\ signal_code = Some(15) /\ exit_code = None

\* C8: the child is killed for the deadline only when the elapsed time has
\* reached the configured timeout, compared at full resolution.
C8_NoKillWithinTimeout ==
    arm = "deadline" => now >= timeout

\* C9: an unreadable line does not end the stream: the streamer forwards one
\* error for it and goes on, the callback gets None and the buffer the
\* sentinel at that position, and the following lines keep their places.
C9_ReadErrorKeepsStream ==
    \A s \in Streams :
        /\ Len(cb[s]) = Len(buf[s])
        /\ Len(cb[s]) + Len(queue[s]) + Len(pipe[s]) = Len(written[s])
        /\ \A i \in 1..Len(buf[s]) :
             IF written[s][i] = Unreadable
             THEN cb[s][i] = <<>> /\ buf[s][i] = "<error retrieving stream content>"
             ELSE cb[s][i] = <<written[s][i]>> /\ buf[s][i] = written[s][i]
        /\ \A j \in 1..Len(queue[s]) :
             queue[s][j].ok = (written[s][Len(cb[s]) + j] # Unreadable)
        /\ spc[s] = "done" => pipe[s] = <<>>

\* C9 witness: a readable line was delivered after an unreadable one.
C9_LineAfterReadError ==
    \E s \in Streams :
        /\ Len(buf[s]) >= 2
        /\ cb[s][1] = <<>>
        /\ buf[s][1] = "<error retrieving stream content>"
        /\ cb[s][2] = <<LineText(2)>>
        /\ buf[s][2] = LineText(2)

\* C10: the sink receives one event per line the supervisor delivered,
\* readable or not.
C10_EventPerDeliveredLine ==
    Len(events) = Len(cb["stdout"]) + Len(cb["stderr"])

\* ------------------------------------------------ claims on the classifier
\* Line l was handed to the stdout callback as its k-th call, in the phase
\* whose grammar it belongs to; events[k] is the event made of it (under
\* ClassifySpec every call passes a line, so calls and events are aligned).
InPhase(l) ==
    IF l.kind \in {"plan_change", "plan_summary"} THEN command = "plan"
    ELSE command \in {"apply", "destroy"}

Classified(l, k) ==
    /\ calls[k] = [stream |-> "stdout", arg |-> Some(l.text)]
    /\ InPhase(l)

Counts(e) == <<e.create_count, e.update_count, e.delete_count>>

SummaryLines == PlanSummaryLines \cup ApplySummaryLines \cup DestroySummaryLines

\* C11: the Completed event of a plan, apply or destroy summary line carries
\* the counts written in the line, whatever their number of digits (for the
\* destroy summary: delete_count only, the other two absent).
C11_SummaryCounts ==
    \A k \in 1..Len(events) : \A l \in SummaryLines :
        Classified(l, k) =>
            /\ events[k].status = Some("Completed")
            /\ Counts(events[k]) = l.counts

\* C12 as stated: the plan line "# a is tainted, so must be replaced", with
\* nothing before the #, yields the change [Destroy, Create].
C12_TaintedUnindented ==
    \A k \in 1..Len(events) : \A a \in Addresses :
        (/\ command = "plan"
         /\ calls[k] = [stream |-> "stdout",
                        arg |-> Some("# " \o a \o " is tainted, so must be replaced")])
            => events[k].change = <<"Destroy", "Create">>

\* C12 amended: the line as terraform prints it, "  # a is tainted, so must
\* be replaced" with its two leading spaces, yields the change
\* [Destroy, Create], in that order.
C12_TaintedIndented ==
    \A k \in 1..Len(events) : \A a \in Addresses :
        (/\ command = "plan"
         /\ calls[k] = [stream |-> "stdout",
                        arg |-> Some("  # " \o a \o " is tainted, so must be replaced")])
            => events[k].change = <<"Destroy", "Create">>

\* C12 witness: an indented tainted line has been classified by run_plan.
C12_TaintedLineClassified ==
    /\ command = "plan"
    /\ Len(events) >= 1
    /\ calls[1] = [stream |-> "stdout",
                   arg |-> Some("  # x is tainted, so must be replaced")]
    /\ events[1].change = <<"Destroy", "Create">>
    /\ events[1].status = Some("Planned")

\* The lines that match a resource grammar: a planned change as terraform
\* prints it, and the three lines of an action.
ResourceLines ==
    {l \in PlanChangeLines : SubSeq(l.text, 1, 2) = "  "}
        \cup StartedLines \cup ProgressLines \cup DoneLines

\* C13: the resource_path of the event of a line that matches a plan or
\* apply grammar is the address of the line, and nothing of the text around
\* it.
C13_ResourcePathIsAddress ==
    \A k \in 1..Len(events) : \A l \in ResourceLines :
        Classified(l, k) => events[k].resource_path = l.address

Matches(r, line) == captures(r, line) # None

NoFields(e) ==
    /\ e.change = <<>>
    /\ e.resource_path = None
    /\ e.id_key = None
    /\ e.id_value = None
    /\ Counts(e) = NoCounts

\* The status the grammar of a line stands for.
KindStatus(kind) ==
    CASE kind = "plan_change" -> Some("Planned")
      [] kind = "started" -> Some("Started")
      [] kind = "progress" -> Some("InProgress")
      [] kind = "done" -> Some("Done")
      [] kind \in {"plan_summary", "apply_summary", "destroy_summary"} ->
           Some("Completed")
      [] OTHER -> None

\* The first of the apply patterns, in their fixed order, found in a line.
FirstApplyPattern(line) ==
    IF Matches(pre_apply_regex, line) THEN "started"
    ELSE IF Matches(still_applying_regex, line) THEN "progress"
    ELSE IF Matches(post_apply_regex, line) THEN "done"
    ELSE IF Matches(apply_completed_regex, line) THEN "apply_summary"
    ELSE IF Matches(destroy_completed_regex, line) THEN "destroy_summary"
    ELSE "other"

ApplyLines ==
    StartedLines \cup ProgressLines \cup DoneLines \cup ApplySummaryLines
        \cup DestroySummaryLines

\* C14: the apply classifier returns an event for every line; its status is
\* that of the first pattern, in the order started, progress, done, apply
\* summary, destroy summary, that the line matches (an apply summary fills
\* create_count, a destroy summary does not), and a line that matches none
\* has no status, no change and no extracted field.
C14_ApplyFirstMatch ==
    \A k \in 1..Len(events) :
        (command \in {"apply", "destroy"} /\ calls[k].stream = "stdout") =>
            LET line == calls[k].arg[1]
                e == events[k]
                first == FirstApplyPattern(line)
            IN  /\ DOMAIN e = DOMAIN DefaultEvent
                /\ e.status = KindStatus(first)
                /\ first = "apply_summary" => e.create_count # None
                /\ first = "destroy_summary" =>
                       e.create_count = None /\ e.delete_count # None
                /\ first = "other" => NoFields(e)
                /\ \A l \in ApplyLines :
                       l.text = line => e.status = KindStatus(l.kind)

\* C14 witness: a line in which both the started and the progress pattern
\* are found was classified as Started, and not as InProgress.
C14_TwoPatternsOneLine ==
    /\ command = "apply"
    /\ Len(events) >= 1
    /\ calls[1].stream = "stdout"
    /\ Matches(pre_apply_regex, calls[1].arg[1])
    /\ Matches(still_applying_regex, calls[1].arg[1])
    /\ events[1].status = Some("Started")

\* C15: every event of a stdout line of the plan phase has the status
\* Planned or Completed: Planned if the planned-change pattern is found,
\* else Completed if the plan summary is found, else Planned with no change
\* and no extracted field.
C15_PlanAlwaysStatus ==
    \A k \in 1..Len(events) :
        (command = "plan" /\ calls[k].stream = "stdout") =>
            LET line == calls[k].arg[1]
                e == events[k]
                change == Matches(plan_change_regex, line)
                summary == Matches(plan_completed_regex, line)
            IN  /\ e.status \in {Some("Planned"), Some("Completed")}
                /\ change => e.status = Some("Planned")
                /\ (~change /\ summary) => e.status = Some("Completed")
                /\ (~change /\ ~summary) =>
                       e.status = Some("Planned") /\ NoFields(e)
                /\ \A l \in PlanSummaryLines :
                       l.text = line => e.status = Some("Completed")

\* C15 witness: a plan line that matches no pattern got the status Planned.
C15_PlanFallback ==
    /\ command = "plan"
    /\ Len(events) >= 1
    /\ calls[1] = [stream |-> "stdout", arg |-> Some("Warning: Deprecated attribute")]
    /\ events[1].status = Some("Planned")
    /\ NoFields(events[1])

\* C16: a Completed event has no resource_path, and an event of any other
\* status, or of none, has no counts.
C16_PathOrCounts ==
    \A k \in 1..Len(events) :
        /\ events[k].status = Some("Completed") =>
               events[k].resource_path = None
        /\ events[k].status # Some("Completed") =>
               Counts(events[k]) = NoCounts

\* C16 witness: a Completed event that carries counts.
C16_CompletedWithCounts ==
    /\ Len(events) >= 1
    /\ events[1].status = Some("Completed")
    /\ events[1].create_count = Some(2)
    /\ events[1].resource_path = None

\* C17: the event of a stderr line is never classified: it has the stream
\* Stderr, no status, no change, no resource_path, no id and no counts.
C17_StderrNeverClassified ==
    \A k \in 1..Len(events) :
        calls[k].stream = "stderr" =>
            /\ events[k].source_stream = "stderr"
            /\ events[k].status = None
            /\ NoFields(events[k])

\* C17 witness: run_apply was given, on stderr, a line of the started
\* grammar.
C17_GrammarLineOnStderr ==
    /\ command = "apply"
    /\ Len(events) >= 1
    /\ calls[1].stream = "stderr"
    /\ \E l \in StartedLines : calls[1].arg = Some(l.text)
    /\ events[1].status = None

\* ------------------------------------------------ claims on the operations
\* The calls that passed a line.
Readable == SelectSeq(calls, LAMBDA c : c.arg # None)

\* C18: the sink holds one event per readable line delivered, in the order
\* of delivery, with the operation's name as command, the line as source and
\* the line's stream as source_stream.
C18_OneEventPerReadableLine ==
    /\ Len(events) = Len(Readable)
    /\ \A k \in 1..Len(events) :
        /\ events[k].command = command
        /\ events[k].source = Readable[k].arg[1]
        /\ events[k].source_stream = Readable[k].stream

\* C18 witness: lines of both streams were delivered around an unreadable
\* one.
C18_BothStreamsDelivered ==
    /\ Len(events) >= 2
    /\ Len(calls) > Len(events)
    /\ \E i, j \in 1..Len(events) :
        events[i].source_stream = "stdout" /\ events[j].source_stream = "stderr"

\* C19: when the launch fails (the spawn, or for plan and apply the path),
\* the operation has returned the error, the sink is empty, no callback
\* was called and no streamer was started.
C19_LaunchErrorNoEvents ==
    /\ outcome \in LaunchErrors =>
        /\ pc = "returned"
        /\ events = <<>>
        /\ calls = <<>>
        /\ \A s \in Streams : spc[s] = "idle"
    /\ outcome = "path_error" => command \in {"plan", "apply"}

\* C19 witness: the spawn failed.
C19_SpawnFailed == Returned("io_error") /\ child = "none"

Joins == {"join_stdout", "join_stderr"}

\* C20: when wait has returned, by any path, both streamers have ended;
\* and on the paths that kill, the joins begin only from the kill.
C20_JoinedBeforeReturn ==
    /\ []((pc = "returned" /\ outcome \in {"ok", "timeout"}) =>
            \A s \in Streams : spc[s] = "done")
    /\ [][(pc' \in Joins /\ pc \notin Joins /\ arm' \in {"err", "deadline"})
            => pc = "kill"]_vars

\* C20 witness: wait returned Timeout after the deadline, streamers ended.
C20_TimeoutJoined ==
    /\ Returned("timeout")
    /\ arm = "deadline"
    /\ \A s \in Streams : spc[s] = "done"

\* ------------------------------------------------- claims on the poll
\* C21: a poll that observes the exit of the child takes the exit arm,
\* whatever the elapsed time, and wait then returns Ok with the code or the
\* signal of that exit; the deadline arm is taken only by a poll that
\* found the child still running.
C21_ExitBeforeDeadline ==
    /\ [][(pc = "try_wait" /\ child = "zombie" /\ pc' # "try_wait"
              /\ arm' # "err")
            => (arm' = "exited" /\ outcome' = "ok")]_vars
    /\ [][(arm' = "deadline" /\ arm # "deadline") => child = "running"]_vars
    /\ []((pc = "returned" /\ arm = "exited") =>
            /\ outcome = "ok"
            /\ status.kind = "exited" =>
                   exit_code = Some(status.val) /\ signal_code = None
            /\ status.kind = "signaled" =>
                   exit_code = None /\ signal_code = Some(status.val))

\* C21 witness: wait returned Ok although the timeout, of a second or more,
\* had already passed when the exit was observed.
C21_ExitSeenAfterDeadline ==
    /\ Returned("ok")
    /\ arm = "exited"
    /\ timeout >= UnitsPerSec
    /\ now >= timeout

\* C22: once a poll could not observe the status, wait kills the child,
\* joins both streamers and returns Timeout, whatever the elapsed time.
C22_StatusErrorReturns ==
    (arm = "err") ~> (Returned("timeout") /\ child # "running")

\* The steps of that path, apart from whether its end is reached: the failed
\* poll goes to the kill whatever the elapsed time; from there on wait calls
\* no callback, fills no buffer and sets neither exit code nor signal; the
\* kill comes before the joins; and what is returned, if wait returns, is
\* Timeout, with both streamers ended and the child no longer running.
StatusErrorPathSteps ==
    /\ [][(arm' = "err" /\ arm # "err") => (pc = "try_wait" /\ pc' = "kill")]_vars
    /\ [][arm = "err" =>
            /\ UNCHANGED <<calls, cb, buf, events, exit_code, signal_code>>
            /\ pc = "kill" => pc' \in {"kill", "join_stdout"}
            /\ pc' = "returned" => pc \in {"returned", "join_stderr"}]_vars
    /\ []((pc = "returned" /\ arm = "err") =>
            /\ outcome = "timeout"
            /\ exit_code = None /\ signal_code = None
            /\ \A s \in Streams : spc[s] = "done"
            /\ child # "running")

\* ------------------------------------------------ claims on the buffers
Other(s) == IF s = "stdout" THEN "stderr" ELSE "stdout"

\* The arguments of the calls made for stream s, in order.
CallsOf(s) ==
    LET mine == SelectSeq(calls, LAMBDA c : c.stream = s) IN
    [i \in 1..Len(mine) |-> mine[i].arg]

\* C23: in every state each buffer has one entry per call of its stream's
\* callback, in the order of the calls: the line that was passed, or the
\* sentinel where None was passed; and a step of one stream's drain leaves
\* the other stream's buffer as it is.
C23_BufferMirrorsCalls ==
    /\ [](\A s \in Streams :
            /\ cb[s] = CallsOf(s)
            /\ Len(buf[s]) = Len(cb[s])
            /\ \A i \in 1..Len(buf[s]) :
                   buf[s][i] = IF cb[s][i] = <<>>
                               THEN "<error retrieving stream content>"
                               ELSE cb[s][i][1])
    /\ [][\A s \in Streams :
            pc = "drain_" \o s => buf'[Other(s)] = buf[Other(s)]]_vars
    /\ [][buf' # buf => pc \in {"drain_stdout", "drain_stderr"}]_vars

\* C23 witness: both buffers hold entries, and one of them is the sentinel
\* of a call that passed None.
C23_BothBuffersFilled ==
    /\ buf["stdout"] # <<>>
    /\ buf["stderr"] # <<>>
    /\ \E k \in 1..Len(calls) : calls[k].arg = <<>>
    /\ \E s \in Streams : \E i \in 1..Len(buf[s]) :
           buf[s][i] = "<error retrieving stream content>"

====
